---- MODULE Spec2Model ----
(***************************************************************************)
(* A model of google-cloud-support.  Of the FirestoreRepository trait: the *)
(* mapper registry (_getMapper), the property mapper (_mapProps), the time *)
(* normaliser (_toTimestamp, _toMoment), the document converter (_toTree,  *)
(* _toFirestoreDocument, _toDocument), the array grower                    *)
(* (_growAllArraysToLargestAmong) and the persistence operations (insert,  *)
(* upsert, findById, getById).  Of pubsub: Publisher and                   *)
(* SynchronousSubscriber.                                                   *)
(***************************************************************************)
EXTENDS Integers, Sequences, FiniteSets, TLC

VARIABLES
  pc,           \* "idle" | "returned" | "threw" | "mutated": where the caller of _mapProps is
  mapperCache,  \* this._mapperCache: cache name -> the closure _getMapper stored under it
  args,         \* the arguments of the _mapProps call in progress (and the heap it started with)
  to,           \* the destination object of the call
  heap,         \* array reference -> elements: arrays have identity
  sets,         \* how often the destination's setter ran (the test's counter)
  writes,       \* the assignments to[...] = value performed, in order
  err,          \* the error the call threw, or "none"
  entity,       \* the entity handed to _toDocument
  document,     \* what _toDocument returned or threw for it
  instant,      \* the value handed to _toTimestamp
  stamp,        \* what _toTimestamp returned or threw for it
  restored,     \* what _toMoment returned or threw for the stamp
  given,        \* the arrays handed to _growAllArraysToLargestAmong, as they were
  grown,        \* the same arrays after the call
  store,        \* the collection: document id -> the stored document, or Missing
  procs,        \* caller -> the repository call it has in progress and where that call is
  publisher,    \* the Publisher instance: its _topic and _transformer
  pubCall,      \* the last call made on Publisher (constructor included) and its outcome
  published,    \* the calls topic.publish received, in order
  subscriber,   \* the SynchronousSubscriber instance: _listening, its handler, its listeners
  subPc,        \* where the thread is: "idle" (stack empty) or a point inside listen
  events,       \* the events emitted and the handler calls made, in order
  pulls         \* the pulls started whose response has not arrived

mapVars == <<pc, mapperCache, args, to, heap, sets, writes, err>>
docVars == <<entity, document>>
timeVars == <<instant, stamp, restored>>
growVars == <<given, grown>>
repoVars == <<store, procs>>
pubVars == <<publisher, pubCall, published>>
subVars == <<subscriber, subPc, events, pulls>>
extVars == <<growVars, repoVars, pubVars, subVars>>
coreVars == <<mapVars, docVars, timeVars>>
vars == <<coreVars, extVars>>

-----------------------------------------------------------------------------
(* Bounds of the model *)

MaxKeys == 2      \* longest list of keys handed to _mapProps
MaxMillis == 2500 \* instants range over -MaxMillis .. MaxMillis epoch milliseconds
MaxLen == 2       \* longest array inside an entity handed to _toDocument

-----------------------------------------------------------------------------
(* JavaScript values *)

Undefined == [t |-> "undefined"]
Num(n) == [t |-> "number", n |-> n]
Str(s) == [t |-> "string", s |-> s]
Arr(r) == [t |-> "array", ref |-> r]
Member(c, o) == [t |-> "enum", cls |-> c, ord |-> o]
Thrown(e) == [t |-> "throw", err |-> e]

NoProps == [n \in {} |-> Undefined]

\* obj[name]
GetProp(obj, name) == IF name \in DOMAIN obj THEN obj[name] ELSE Undefined

\* JavaScript truthiness, as used by `a && b` and `a || b`
Truthy(v) ==
  CASE v.t = "undefined" -> FALSE
    [] v.t = "null" -> FALSE
    [] v.t = "number" -> v.n # 0
    [] v.t = "string" -> v.s # ""
    [] v.t = "boolean" -> v.b
    [] OTHER -> TRUE

-----------------------------------------------------------------------------
(* Enumeration classes.  A class has an identity and a name; two classes   *)
(* declared in different modules may carry the same name.                  *)

EnumClasses == {"DayOfWeek", "Status@a", "Status@b"}

ClassName(c) == IF c = "DayOfWeek" THEN "DayOfWeek" ELSE "Status"

EnumValues(c) ==
  CASE c = "DayOfWeek" -> <<"SUNDAY", "MONDAY", "TUESDAY">>
    [] c = "Status@a" -> <<"ON", "OFF">>
    [] c = "Status@b" -> <<"OPEN", "CLOSED">>

EnumClass(c) == [t |-> "class", cls |-> c]

\* E.of(v): the member of E with ordinal v or symbolic name v
EnumOf(c, v) ==
  IF v.t = "number" /\ v.n \in 0 .. (Len(EnumValues(c)) - 1)
  THEN Member(c, v.n)
  ELSE IF v.t = "string" /\ \E i \in 1 .. Len(EnumValues(c)) : EnumValues(c)[i] = v.s
       THEN Member(c, (CHOOSE i \in 1 .. Len(EnumValues(c)) : EnumValues(c)[i] = v.s) - 1)
       ELSE Thrown("UnrecognizedEnumValue")

ValidFor(c, v) == EnumOf(c, v).t = "enum"

-----------------------------------------------------------------------------
(* Mapper registry *)

\* the closure `mapper` captured by a registry entry
NoopFn == [fn |-> "noop"]
OfFn(c) == [fn |-> "of", cls |-> c]

\* mapper(value) for a captured closure
CallMapper(m, v) == IF m.fn = "noop" THEN v ELSE EnumOf(m.cls, v)

\* _getMapper(mapper, name): the cache after the call
GetMapperCache(cache, mapper, name) ==
  IF name \in DOMAIN cache THEN cache ELSE (name :> mapper) @@ cache

\* _getMapper(mapper, name): the registry entry returned
GetMapper(cache, mapper, name) == GetMapperCache(cache, mapper, name)[name]

NoopName == "noop"
EnumCacheName(c) == "enum:" \o ClassName(c)

-----------------------------------------------------------------------------
(* The `mappers` argument of _mapProps: undefined, a converter function, an *)
(* enumeration class, or an object of converters by property name.          *)

Fn(name, length, body) == [t |-> "function", name |-> name, length |-> length, body |-> body]
Mapping(entries) == [t |-> "object", entries |-> entries]

\* mappers[key]: a function has the own properties name and length, a class
\* (a constructor function) has them too, an object has its entries
Lookup(m, key) ==
  CASE m.t = "function" ->
         IF key = "name" THEN Str(m.name)
         ELSE IF key = "length" THEN Num(m.length) ELSE Undefined
    [] m.t = "class" ->
         IF key = "name" THEN Str(ClassName(m.cls))
         ELSE IF key = "length" THEN Num(0) ELSE Undefined
    [] m.t = "object" -> GetProp(m.entries, key)
    [] OTHER -> Undefined

\* let map = (mappers && mappers[key]) || mappers
Resolve(mappers, key) ==
  IF Truthy(mappers) /\ Truthy(Lookup(mappers, key)) THEN Lookup(mappers, key) ELSE mappers

\* Array.isArray(map?.enumValues) && typeof map?.enumValues[0] === 'object'
IsEnumClass(map) == map.t = "class" /\ Len(EnumValues(map.cls)) > 0

\* typeof map === 'function'
IsFunction(map) == map.t \in {"function", "class"}

\* map({ key, from, getterPrefix, ... }) for a converter the caller wrote:
\* "inc" adds one to a number and skips anything else, "skip" skips every field
CallCustom(f, key, from, gp) ==
  LET v == GetProp(from, gp \o key)
  IN  IF f.body = "inc" /\ v.t = "number" THEN Num(v.n + 1) ELSE Undefined

-----------------------------------------------------------------------------
(* A registry entry applied to a field (the closure built by _getMapper)   *)

NewRef(h) == Cardinality(DOMAIN h) + 1

\* value.map(mapper): the elements, or the error the first failing element throws
MapElems(m, elems) ==
  LET out == [i \in 1 .. Len(elems) |-> CallMapper(m, elems[i])]
      bad == {i \in 1 .. Len(elems) : out[i].t = "throw"}
  IN  IF bad = {} THEN [ok |-> TRUE, elems |-> out]
      ELSE [ok |-> FALSE, err |-> out[CHOOSE i \in bad : \A j \in bad : i <= j]]

\* (mutant) the source array itself is handed on instead of a copy
ConvertArrayAliased(m, value, h) == [val |-> value, heap |-> h]

\* Array.isArray(value) ? [...value.map(mapper)] : mapper(value)
ConvertArray(m, value, h) ==
  LET r == MapElems(m, h[value.ref])
  IN  IF r.ok THEN [val |-> Arr(NewRef(h)), heap |-> (NewRef(h) :> r.elems) @@ h]
      ELSE [val |-> r.err, heap |-> h]

\* ({ key, from, getterPrefix }) => { ... }
RegistryCall(m, key, from, gp, h) ==
  LET value == GetProp(from, gp \o key)
  IN  IF value = Undefined THEN [val |-> value, heap |-> h]
      ELSE IF value.t = "array" THEN ConvertArray(m, value, h)
      ELSE [val |-> CallMapper(m, value), heap |-> h]

-----------------------------------------------------------------------------
(* Destination objects: a plain object, or an instance of the class To of  *)
(* the unit test, whose accessor `string` stores in `_string` and counts.  *)

Obj(cls, props) == [cls |-> cls, props |-> props]

HasSetter(dest, name) == dest.cls = "To" /\ name = "string"

\* to[name]
ReadProp(dest, name) ==
  IF HasSetter(dest, name) THEN GetProp(dest.props, "_string") ELSE GetProp(dest.props, name)

\* (mutant) the value is stored in the object's own slot, past any accessor
AssignSlot(acc, name, value) ==
  [acc EXCEPT !.to.props = (name :> value) @@ acc.to.props,
              !.writes = Append(acc.writes, [name |-> name, val |-> value])]

\* to[name] = value
Assign(acc, name, value) ==
  IF HasSetter(acc.to, name)
  THEN [acc EXCEPT !.to.props = ("_string" :> value) @@ acc.to.props,
                   !.sets = acc.sets + 1,
                   !.writes = Append(acc.writes, [name |-> name, val |-> value])]
  ELSE [acc EXCEPT !.to.props = (name :> value) @@ acc.to.props,
                   !.writes = Append(acc.writes, [name |-> name, val |-> value])]

-----------------------------------------------------------------------------
(* _mapProps *)

\* (mutant) the prefix is dropped when the destination is written
SetterNameNoPrefix(sp, key) == key

SetterName(sp, key) == sp \o key

\* (mutant) every result is written, an absent one too
ShouldSetAlways(value) == TRUE

\* if (value !== undefined) ...
ShouldSet(value) == value # Undefined

\* the converter of one key and the registry after resolving it
ConverterOf(cache, mappers, key) ==
  LET map == Resolve(mappers, key)
  IN  IF IsEnumClass(map)
      THEN [kind |-> "registry",
            cache |-> GetMapperCache(cache, OfFn(map.cls), EnumCacheName(map.cls)),
            entry |-> GetMapper(cache, OfFn(map.cls), EnumCacheName(map.cls))]
      ELSE IF ~IsFunction(map)
      THEN [kind |-> "registry",
            cache |-> GetMapperCache(cache, NoopFn, NoopName),
            entry |-> GetMapper(cache, NoopFn, NoopName)]
      ELSE [kind |-> "custom", cache |-> cache, entry |-> map]

\* one iteration of keys.reduce
StepKey(c, acc, key) ==
  LET conv == ConverterOf(acc.cache, c.mappers, key)
      r == IF conv.kind = "registry"
           THEN RegistryCall(conv.entry, key, c.from, c.gp, acc.heap)
           ELSE [val |-> CallCustom(conv.entry, key, c.from, c.gp), heap |-> acc.heap]
      acc1 == [acc EXCEPT !.cache = conv.cache, !.heap = r.heap]
  IN  IF r.val.t = "throw" THEN [acc1 EXCEPT !.err = r.val.err]
      ELSE IF ShouldSet(r.val) THEN Assign(acc1, SetterName(c.sp, key), r.val)
      ELSE acc1

\* a reduce that goes on to the later keys after a converter threw
RECURSIVE ReduceKeepGoing(_, _, _)
ReduceKeepGoing(c, acc, i) ==
  IF i > Len(c.keys) THEN acc
  ELSE ReduceKeepGoing(c, StepKey(c, acc, c.keys[i]), i + 1)

RECURSIVE Reduce(_, _, _)
Reduce(c, acc, i) ==
  IF i > Len(c.keys) \/ acc.err # "none" THEN acc
  ELSE Reduce(c, StepKey(c, acc, c.keys[i]), i + 1)

\* keys = keys || Object.keys(from); if (!Array.isArray(keys)) keys = [keys]
NormalizeKeys(keys, from) ==
  IF keys = Undefined THEN from.order
  ELSE IF keys.t = "string" THEN <<keys.s>>
  ELSE keys.list

\* to = to || {}
NormalizeTo(dest) == IF dest = Undefined THEN Obj("Object", NoProps) ELSE dest

-----------------------------------------------------------------------------
(* The calls the model makes: sources, destinations, keys, prefixes,       *)
(* converters.  A source object lists its properties in insertion order;   *)
(* its one array lives at reference 1 of the heap.                         *)

\* the first reference of a heap
SrcRef == NewRef(NoProps)

Source(props, order, array) == [props |-> props, order |-> order, array |-> array]

Sources == {
  Source([string |-> Str("s"), array |-> Arr(SrcRef), enumeration |-> Num(1),
          name |-> Str("Alice"), length |-> Num(5)],
         <<"string", "array", "enumeration", "name", "length">>,
         <<Num(1), Num(0)>>),
  Source([enumeration |-> Arr(SrcRef), string |-> Str("TUESDAY"),
          _enumeration |-> Str("CLOSED"), _length |-> Num(0)],
         <<"enumeration", "string", "_enumeration", "_length">>,
         <<Str("MONDAY"), Num(2)>>) }

\* the names callers list as keys; a source's own names come in when keys is left out
KeyNames == {"string", "array", "enumeration", "length"}

KeyLists == UNION {[1 .. n -> KeyNames] : n \in 0 .. MaxKeys}

KeysArgs == {Undefined, Str("string")} \cup {[t |-> "list", list |-> l] : l \in KeyLists}

Prefixes == {"", "_"}

Inc == Fn("mappers", 1, "inc")

MappersArgs == {
  Undefined, Inc,
  EnumClass("DayOfWeek"), EnumClass("Status@a"), EnumClass("Status@b"),
  Mapping([enumeration |-> EnumClass("DayOfWeek"), array |-> Fn("array", 1, "inc")]),
  Mapping([enumeration |-> EnumClass("Status@b"), string |-> Fn("string", 1, "skip"),
           array |-> EnumClass("Status@a")]),
  Mapping([length |-> Fn("length", 1, "inc"), string |-> EnumClass("DayOfWeek")]) }

Destinations == {
  Undefined,
  Obj("To", NoProps),
  Obj("Object", [string |-> Str("old"), _string |-> Str("old2"), extra |-> Str("keep"),
                 _array |-> Num(7)]) }

-----------------------------------------------------------------------------
(* The state machine: a repository whose caller runs one _mapProps call at *)
(* a time, may change the source afterwards, and drops the call's objects. *)

NoCall == [t |-> "none"]

\* no call made to the operations of the other sections
GrowIdle == given = NoCall /\ grown = NoCall
RepoIdle == store = NoCall /\ procs = NoCall
PubIdle == publisher = NoCall /\ pubCall = NoCall /\ published = NoCall
SubIdle == subscriber = NoCall /\ subPc = "idle" /\ events = <<>> /\ pulls = <<>>
ExtIdle == GrowIdle /\ RepoIdle /\ PubIdle /\ SubIdle
CoreIdle ==
  /\ pc = "idle" /\ mapperCache = NoProps /\ args = NoCall /\ to = Undefined
  /\ heap = NoProps /\ sets = 0 /\ writes = <<>> /\ err = "none"
  /\ entity = NoCall /\ document = NoCall
  /\ instant = NoCall /\ stamp = NoCall /\ restored = NoCall

Init ==
  /\ pc = "idle"
  /\ mapperCache = NoProps
  /\ args = NoCall
  /\ to = Undefined
  /\ heap = NoProps
  /\ sets = 0
  /\ writes = <<>>
  /\ err = "none"
  /\ entity = NoCall /\ document = NoCall
  /\ instant = NoCall /\ stamp = NoCall /\ restored = NoCall
  /\ ExtIdle

\* _mapProps({ keys, from, to, setterPrefix, getterPrefix, mappers })
MapProps(keys, src, dest, sp, gp, mappers) ==
  /\ pc = "idle"
  /\ \E c \in {[keys |-> NormalizeKeys(keys, src), from |-> src.props,
                sp |-> sp, gp |-> gp, mappers |-> mappers]} :
     \E acc0 \in {[to |-> NormalizeTo(dest), heap |-> (SrcRef :> src.array),
                   cache |-> mapperCache, sets |-> 0, writes |-> <<>>, err |-> "none"]} :
     \E acc \in {Reduce(c, acc0, 1)} :
       /\ args' = [t |-> "mapProps", keys |-> c.keys, from |-> src.props, to |-> acc0.to,
                   sp |-> sp, gp |-> gp, mappers |-> mappers, heap |-> acc0.heap,
                   cache |-> mapperCache]
       /\ to' = acc.to
       /\ heap' = acc.heap
       /\ mapperCache' = acc.cache
       /\ sets' = acc.sets
       /\ writes' = acc.writes
       /\ err' = acc.err
       /\ pc' = IF acc.err = "none" THEN "returned" ELSE "threw"
       /\ UNCHANGED <<docVars, timeVars, extVars>>

\* the caller's  for (...) from.array[i]++  after the call
MutateSource ==
  /\ pc = "returned"
  /\ \A i \in 1 .. Len(heap[SrcRef]) : heap[SrcRef][i].t = "number"
  /\ heap' = [heap EXCEPT ![SrcRef] = [i \in 1 .. Len(@) |-> Num(@[i].n + 1)]]
  /\ pc' = "mutated"
  /\ UNCHANGED <<mapperCache, args, to, sets, writes, err, docVars, timeVars, extVars>>

\* the caller lets go of the call's objects; the repository keeps its registry
Return ==
  /\ pc # "idle"
  /\ pc' = "idle"
  /\ args' = NoCall
  /\ to' = Undefined
  /\ heap' = NoProps
  /\ sets' = 0
  /\ writes' = <<>>
  /\ err' = "none"
  /\ UNCHANGED <<mapperCache, docVars, timeVars, extVars>>

\* any caller, any arguments
CallMapProps ==
  /\ pc = "idle"
  /\ \E keys \in KeysArgs, src \in Sources, dest \in Destinations,
        sp \in Prefixes, gp \in Prefixes, mappers \in MappersArgs :
       MapProps(keys, src, dest, sp, gp, mappers)

Next ==
  \/ CallMapProps
  \/ MutateSource
  \/ Return

Spec == Init /\ [][Next]_vars

-----------------------------------------------------------------------------
(* What the claims speak of, read off the recorded call *)

Called == pc \in {"returned", "mutated"}

KeyAt(i) == args.keys[i]
SourceValue(key) == GetProp(args.from, args.gp \o key)
DestName(key) == args.sp \o key

\* a value with its array elements in place of the array's identity
Content(v, h) == IF v.t = "array" THEN [t |-> "array", elems |-> h[v.ref]] ELSE v

\* a function g of one value applied as the registry applies it: absent stays
\* absent, an array goes element by element
Elementwise(g(_), v, h) ==
  IF v = Undefined THEN Undefined
  ELSE IF v.t = "array" THEN [t |-> "array", elems |-> [i \in 1 .. Len(h[v.ref]) |-> g(h[v.ref][i])]]
  ELSE g(v)

\* the result of the converter the call used for a key, on the source as it
\* was when the call was made
UsedResult(key) ==
  LET conv == ConverterOf(mapperCache, args.mappers, key)
      m == conv.entry
      Via(v) == CallMapper(m, v)
  IN  IF conv.kind = "custom" THEN CallCustom(m, key, args.from, args.gp)
      ELSE Elementwise(Via, SourceValue(key), args.heap)

WrittenPositions == {i \in 1 .. Len(args.keys) : UsedResult(KeyAt(i)) # Undefined}

\* C1: after _mapProps returns, for every key whose converter result is not
\* absent, to[setterPrefix + key] holds that result, computed from
\* from[getterPrefix + key]; the assignments were made in the order of keys.
C1_MappedFields ==
  Called =>
    /\ \A i \in WrittenPositions :
         Content(ReadProp(to, DestName(KeyAt(i))), heap) = UsedResult(KeyAt(i))
    /\ LET ks == SelectSeq(args.keys, LAMBDA k : UsedResult(k) # Undefined)
       IN  [i \in 1 .. Len(writes) |-> writes[i].name] = [i \in 1 .. Len(ks) |-> DestName(ks[i])]

C1_Witness ==
  /\ pc = "returned"
  /\ args.sp = "_" /\ args.gp = ""
  /\ Len(writes) = 2 /\ writes[1].name = "_array" /\ writes[2].name = "_string"
  /\ to.props["_string"] = Str("s")

\* the names the call assigned
WrittenNames == {DestName(KeyAt(i)) : i \in WrittenPositions}

\* the slot of the destination an assignment to `name` stores in: the
\* destination's own accessor stores `string` in `_string`
SlotOf(name) == IF HasSetter(args.to, name) THEN "_string" ELSE name

\* C2: a key whose converter result is absent leaves to[setterPrefix + key]
\* as it was before the call (not created, not overwritten, not cleared), and
\* so is every property of the destination that no written key names (the slot
\* a destination's own accessor stores a written key in counts as named).
C2_AbsentUntouched ==
  Called =>
    \A n \in (DOMAIN to.props) \cup (DOMAIN args.to.props) \cup {DestName(KeyAt(i)) : i \in 1 .. Len(args.keys)} :
      n \notin {SlotOf(w) : w \in WrittenNames} =>
        /\ (n \in DOMAIN to.props) = (n \in DOMAIN args.to.props)
        /\ GetProp(to.props, n) = GetProp(args.to.props, n)

C2_Witness ==
  /\ pc = "returned"
  /\ Len(writes) = 1
  /\ \E i \in 1 .. Len(args.keys) :
       /\ i \notin WrittenPositions
       /\ SourceValue(KeyAt(i)) # Undefined
       /\ DestName(KeyAt(i)) \in DOMAIN args.to.props
       /\ to.props[DestName(KeyAt(i))] = Str("old")

\* the converter the documented resolution gives a key: the single function
\* for every key, else the key's own entry when it is a function or an
\* enumeration class, else the identity
DocumentedResult(key) ==
  LET ms == args.mappers
      entry == IF ms.t = "object" THEN GetProp(ms.entries, key) ELSE ms
      Same(v) == v
      Registered(v) == CallMapper(mapperCache[EnumCacheName(entry.cls)], v)
      Own(v) == EnumOf(entry.cls, v)
  IN  IF entry.t = "function" THEN CallCustom(entry, key, args.from, args.gp)
      ELSE IF entry.t = "class"
      THEN IF EnumCacheName(entry.cls) \in DOMAIN mapperCache
           THEN Elementwise(Registered, SourceValue(key), args.heap)
           ELSE Elementwise(Own, SourceValue(key), args.heap)
      ELSE Elementwise(Same, SourceValue(key), args.heap)

\* C3: a single converter function is the converter of every key, whatever
\* the key is called; in a mapping a key's own function or enumeration class
\* is used; the identity only when neither applies.  (Refuted: for the keys
\* `name` and `length` a function's own property of that name is taken for
\* the key's entry and the identity converter is used.)
C3_ConverterResolution ==
  (Called /\ args.mappers.t \in {"function", "object"}) =>
    \A i \in 1 .. Len(args.keys) :
      LET r == DocumentedResult(KeyAt(i))
      IN  IF r = Undefined
          THEN \A j \in 1 .. Len(writes) : writes[j].name # DestName(KeyAt(i))
          ELSE Content(ReadProp(to, DestName(KeyAt(i))), heap) = r

\* C4: with an enumeration class E resolved as the converter of a key and a
\* stored value (or array of values) valid for E, the destination holds
\* E.of(v), a member of E itself, whatever the registry held before.
\* (Refuted: the registry entry is found by the class's name, so a second
\* class of the same name is served by the first one's `of`.)
C4_EnumMembersOfSameClass ==
  Called =>
    \A i \in 1 .. Len(args.keys) :
      LET map == Resolve(args.mappers, KeyAt(i))
          v == SourceValue(KeyAt(i))
          Own(x) == EnumOf(map.cls, x)
          valid == IF v.t = "array"
                   THEN \A j \in 1 .. Len(args.heap[v.ref]) : ValidFor(map.cls, args.heap[v.ref][j])
                   ELSE ValidFor(map.cls, v)
      IN  (IsEnumClass(map) /\ v # Undefined /\ valid) =>
            Content(ReadProp(to, DestName(KeyAt(i))), heap) = Elementwise(Own, v, args.heap)

\* the identity converter is the one that applies to the key
IdentityApplies(key) ==
  \/ args.mappers = Undefined
  \/ args.mappers.t = "object" /\ key \notin DOMAIN args.mappers.entries

\* C9: with the identity converter a scalar field of the destination equals
\* the source field; an array field is another array with the same elements,
\* which a later change of the source array's elements does not reach; and
\* _mapProps leaves the source as it was.
C9_IdentityCopies ==
  /\ Called =>
       \A i \in 1 .. Len(args.keys) :
         LET v == SourceValue(KeyAt(i))
             d == ReadProp(to, DestName(KeyAt(i)))
         IN  (IdentityApplies(KeyAt(i)) /\ v # Undefined) =>
               IF v.t = "array"
               THEN d.t = "array" /\ d.ref # v.ref /\ heap[d.ref] = args.heap[v.ref]
               ELSE d = v
  /\ pc \in {"returned", "threw"} => \A r \in DOMAIN args.heap : heap[r] = args.heap[r]

C9_Witness ==
  /\ pc = "mutated"
  /\ args.mappers = Undefined
  /\ \E i \in 1 .. Len(args.keys) :
       /\ SourceValue(KeyAt(i)).t = "array"
       /\ heap[SourceValue(KeyAt(i)).ref] # args.heap[SourceValue(KeyAt(i)).ref]
       /\ ReadProp(to, DestName(KeyAt(i))).t = "array"
  /\ \E i \in 1 .. Len(args.keys) : ReadProp(to, DestName(KeyAt(i))) = Str("s")

\* C10: the destination's setter for setterPrefix + key runs once for each
\* key (each position of keys) whose converter result is not absent, and not
\* at all for a key whose result is absent.
C10_SetterOncePerKey ==
  Called => sets = Cardinality({i \in WrittenPositions : HasSetter(args.to, DestName(KeyAt(i)))})

C10_Witness ==
  /\ pc = "returned"
  /\ to.cls = "To"
  /\ sets = 1
  /\ Len(args.keys) = 2
  /\ \E i \in 1 .. 2 : i \notin WrittenPositions
  /\ to.props["_string"] = Str("TUESDAY")

\* the converter result of a key is a throw: the converter threw, or it threw
\* on an element of the array it was mapping
Throws(v) == v.t = "throw" \/ (v.t = "array" /\ \E i \in 1 .. Len(v.elems) : v.elems[i].t = "throw")
ErrorOf(v) ==
  IF v.t = "throw" THEN v.err
  ELSE v.elems[CHOOSE i \in 1 .. Len(v.elems) :
                 /\ v.elems[i].t = "throw"
                 /\ \A j \in 1 .. i - 1 : v.elems[j].t # "throw"].err

ThrowingPositions == {i \in 1 .. Len(args.keys) : Throws(UsedResult(KeyAt(i)))}
FirstThrowing == CHOOSE k \in ThrowingPositions : \A j \in ThrowingPositions : k <= j

\* C11: when the converter of the k-th key throws, _mapProps throws that error
\* to its caller, the destination holds the values written for the keys before
\* position k (nothing is rolled back), and nothing is written for the key at
\* position k or for a later key.
C11_ThrowKeepsEarlierWrites ==
  /\ (pc # "idle" /\ ThrowingPositions # {}) => pc = "threw"
  /\ pc = "threw" =>
       /\ ThrowingPositions # {}
       /\ err = ErrorOf(UsedResult(KeyAt(FirstThrowing)))
       /\ LET before == {i \in WrittenPositions : i < FirstThrowing}
               ks == SelectSeq(SubSeq(args.keys, 1, FirstThrowing - 1),
                               LAMBDA k : UsedResult(k) # Undefined)
           IN  /\ \A i \in before :
                    Content(ReadProp(to, DestName(KeyAt(i))), heap) = UsedResult(KeyAt(i))
               /\ [i \in 1 .. Len(writes) |-> writes[i].name]
                    = [i \in 1 .. Len(ks) |-> DestName(ks[i])]
               /\ \A n \in DOMAIN to.props :
                    (\A i \in before : SlotOf(DestName(KeyAt(i))) # n /\ DestName(KeyAt(i)) # n)
                      => (n \in DOMAIN args.to.props /\ to.props[n] = args.to.props[n])

C11_Witness ==
  /\ pc = "threw"
  /\ err = "UnrecognizedEnumValue"
  /\ FirstThrowing = 2
  /\ Len(writes) = 1
  /\ ReadProp(to, DestName(KeyAt(1))) # ReadProp(args.to, DestName(KeyAt(1)))
  /\ DestName(KeyAt(2)) \notin DOMAIN to.props


-----------------------------------------------------------------------------
(* Time values: moment instants, native dates, storage timestamps          *)

Moment(ms, utc) == [t |-> "moment", ms |-> ms, utc |-> utc]
DateOf(ms) == [t |-> "date", ms |-> ms]
Timestamp(seconds, nanoseconds) == [t |-> "timestamp", seconds |-> seconds, nanoseconds |-> nanoseconds]
TimestampLike(seconds, nanoseconds) == [t |-> "plain", seconds |-> seconds, nanoseconds |-> nanoseconds]

\* (mutant) the seconds are rounded towards zero instead of down
FromMillisTruncating(ms) ==
  LET seconds == IF ms >= 0 THEN ms \div 1000 ELSE 0 - ((0 - ms) \div 1000)
  IN  Timestamp(seconds, (ms - seconds * 1000) * 1000000)

\* Timestamp.fromMillis(ms), for an integer ms
FromMillis(ms) ==
  LET seconds == ms \div 1000
  IN  Timestamp(seconds, (ms - seconds * 1000) * 1000000)

\* timestamp.toMillis()
ToMillis(ts) == ts.seconds * 1000 + ((ts.nanoseconds + 500000) \div 1000000)

\* new Timestamp(seconds, nanoseconds) accepts nanoseconds within a second only
ValidTimestamp(ts) == ts.nanoseconds \in 0 .. 999999999

\* _toTimestamp(it)
ToTimestamp(it) ==
  LET ms == CASE it.t = "timestamp" -> Num(ToMillis(it))
              [] it.t = "moment" -> Num(it.ms)
              [] it.t = "date" -> Num(it.ms)
              [] OTHER -> it
  IN  IF ms.t = "number" /\ ValidTimestamp(FromMillis(ms.n)) THEN FromMillis(ms.n)
      ELSE Thrown("IllegalArgumentError")

\* _isTimestampLike(it, valueIfInstanceOf)
IsTimestampLike(it, valueIfInstanceOf) ==
  IF it.t = "timestamp" THEN valueIfInstanceOf ELSE it.t = "plain"

\* _fromTimestampDocument(plain)
FromTimestampDocument(plain) == Timestamp(plain.seconds, plain.nanoseconds)

\* moment.utc(it): a number is epoch milliseconds, a moment or a date is
\* taken over, a string that is no date and anything else gives an invalid moment
MomentUtc(it) ==
  CASE it.t = "number" -> Moment(it.n, TRUE)
    [] it.t = "moment" -> Moment(it.ms, TRUE)
    [] it.t = "date" -> Moment(it.ms, TRUE)
    [] OTHER -> [t |-> "invalid"]

\* _toMoment(it)
ToMoment(it) ==
  IF ~Truthy(it) THEN it
  ELSE LET a == IF IsTimestampLike(it, FALSE) THEN FromTimestampDocument(it) ELSE it
           b == IF a.t = "timestamp"
                THEN (IF ValidTimestamp(a) THEN Num(ToMillis(a)) ELSE Thrown("Error"))
                ELSE a
           m == MomentUtc(b)
       IN  IF b.t = "throw" THEN b
           ELSE IF m.t = "invalid" THEN Thrown("IllegalArgumentError")
           ELSE m

Millis == (0 - MaxMillis) .. MaxMillis

\* the values the round trip is run on: instants (in UTC or local mode),
\* native dates, epoch milliseconds, and what is no time at all
Instants ==
  {Moment(ms, u) : ms \in Millis, u \in BOOLEAN}
    \cup {DateOf(ms) : ms \in {0 - 1, 0, 1999}}
    \cup {Num(ms) : ms \in {0 - 1001, 0, 1}}
    \cup {Undefined, Str("yesterday-ish")}

Pending == [t |-> "pending"]

TimeInit ==
  /\ instant \in Instants
  /\ stamp = Pending
  /\ restored = Pending
  /\ pc = "idle" /\ mapperCache = NoProps /\ args = NoCall /\ to = Undefined
  /\ heap = NoProps /\ sets = 0 /\ writes = <<>> /\ err = "none"
  /\ entity = NoCall /\ document = NoCall
  /\ ExtIdle

\* stamp = repo._toTimestamp(instant)
ToStorageTimestamp ==
  /\ stamp = Pending
  /\ stamp' = ToTimestamp(instant)
  /\ UNCHANGED <<instant, restored, mapVars, docVars, extVars>>

\* restored = repo._toMoment(stamp)
ToInstant ==
  /\ stamp \notin {Pending, Thrown("IllegalArgumentError")}
  /\ restored = Pending
  /\ restored' = ToMoment(stamp)
  /\ UNCHANGED <<instant, stamp, mapVars, docVars, extVars>>

TimeNext == ToStorageTimestamp \/ ToInstant

SpecTime == TimeInit /\ [][TimeNext]_vars

\* C5: for an Instant t, toInstant(toStorageTimestamp(t)) is an Instant (a
\* UTC moment) of the same epoch millisecond as t.
C5_RoundTrip ==
  /\ (instant.t = "moment" /\ stamp # Pending) => stamp.t = "timestamp"
  /\ (instant.t = "moment" /\ restored # Pending) =>
       /\ restored.t = "moment" /\ restored.utc
       /\ restored.ms = instant.ms

C5_Witness ==
  /\ instant = Moment(0 - 1001, FALSE)
  /\ stamp = Timestamp(0 - 2, 999000000)
  /\ restored = Moment(0 - 1001, TRUE)

-----------------------------------------------------------------------------
(* Entities and documents: scalars, functions, enumeration members, time   *)
(* values, arrays (by value) and objects with a class and own properties.  *)

Null == [t |-> "null"]
FnValue == [t |-> "function"]
List(elems) == [t |-> "array", elems |-> elems]
Inst(cls, props) == [t |-> "obj", cls |-> cls, props |-> props]

PeriodClasses == {"Period", "DatePeriod"}

\* the cases of the customizer of _toTreeCustomizer; "none" when it converts nothing
Customize(it) ==
  CASE it.t = "enum" -> Str(EnumValues(it.cls)[it.ord + 1])
    [] it.t = "moment" -> FromMillis(it.ms)
    [] it.t = "date" -> FromMillis(it.ms)
    [] it.t = "timestamp" -> it
    [] OTHER -> [t |-> "none"]

\* _.cloneDeepWith(value, customizer) below the root: a function inside an
\* object or an array is handed on as it is
RECURSIVE CloneDeepWith(_)
CloneDeepWith(it) ==
  IF Customize(it).t # "none" THEN Customize(it)
  ELSE IF it.t = "array" THEN List([i \in 1 .. Len(it.elems) |-> CloneDeepWith(it.elems[i])])
  ELSE IF it.t = "obj" THEN Inst(it.cls, [k \in DOMAIN it.props |-> CloneDeepWith(it.props[k])])
  ELSE it

\* _toTree(entity): at the root lodash clones a function to an empty object
ToTree(it) ==
  IF it.t = "function" THEN Inst("Object", NoProps) ELSE CloneDeepWith(it)

\* (mutant) the end is written whether or not the period has one
ToPeriodDocumentAlwaysEnd(period) ==
  LET begin == GetProp(period.props, "_begin")
      end == GetProp(period.props, "_end")
      r0 == ("_type" :> Str(period.cls))
      r1 == IF Truthy(begin) THEN ("_begin" :> ToTimestamp(begin)) @@ r0 ELSE r0
  IN  Inst("Object", ("_end" :> (IF Truthy(end) THEN ToTimestamp(end) ELSE end)) @@ r1)

\* _toPeriodDocument(period)
ToPeriodDocument(period) ==
  LET begin == GetProp(period.props, "_begin")
      end == GetProp(period.props, "_end")
      r0 == ("_type" :> Str(period.cls))
      r1 == IF Truthy(begin) THEN ("_begin" :> ToTimestamp(begin)) @@ r0 ELSE r0
      r2 == IF Truthy(end) THEN ("_end" :> ToTimestamp(end)) @@ r1 ELSE r1
  IN  IF \E k \in DOMAIN r2 : r2[k].t = "throw"
      THEN r2[CHOOSE k \in DOMAIN r2 : r2[k].t = "throw"]
      ELSE Inst("Object", r2)

\* the first error among converted parts, in the order they are converted
FirstThrown(parts, order) ==
  LET bad == {i \in 1 .. Len(order) : parts[order[i]].t = "throw"}
  IN  parts[order[CHOOSE i \in bad : \A j \in bad : i <= j]]

\* the own property names of an entity, in the order the model lists them
KeyOrder == <<"a", "b", "_begin", "_end">>
KeysIn(props) == SelectSeq(KeyOrder, LAMBDA k : k \in DOMAIN props)

\* _toFirestoreDocument(it)
RECURSIVE ToFirestoreDocument(_)
ToFirestoreDocument(it) ==
  IF it.t = "function" THEN Thrown("IllegalArgumentError")
  ELSE IF it.t = "timestamp" THEN it
  ELSE IF it.t = "array" THEN
    LET parts == [i \in 1 .. Len(it.elems) |-> ToFirestoreDocument(it.elems[i])]
    IN  IF \E i \in 1 .. Len(parts) : parts[i].t = "throw"
        THEN FirstThrown(parts, [i \in 1 .. Len(parts) |-> i])
        ELSE List(parts)
  ELSE IF it.t = "obj" /\ it.cls \in PeriodClasses THEN ToPeriodDocument(it)
  ELSE IF it.t = "null" THEN Thrown("TypeError")
  ELSE IF it.t = "obj" THEN
    LET kept == {k \in DOMAIN it.props : it.props[k].t \notin {"function", "undefined"}}
        parts == [k \in kept |-> ToFirestoreDocument(it.props[k])]
    IN  IF \E k \in kept : parts[k].t = "throw"
        THEN FirstThrown(parts, SelectSeq(KeysIn(it.props), LAMBDA k : k \in kept))
        ELSE Inst("Object", parts)
  ELSE it

\* _toDocument(entity)
ToDocumentOf(it) == ToFirestoreDocument(ToTree(it))

-----------------------------------------------------------------------------
(* The entities _toDocument is run on *)

Leaves ==
  {Num(1), Str("x"), Undefined, Null, FnValue, Member("DayOfWeek", 2),
   Moment(1500, FALSE), DateOf(0 - 1), Timestamp(1, 500000000)}

Missing == [t |-> "missing"]

\* a period's begin or end: no such property, undefined, null, or an instant
PeriodEnds == {Missing, Undefined, Null, Moment(1500, TRUE), Moment(0 - 1, FALSE)}

PeriodProps(b, e) ==
  (IF b = Missing THEN NoProps ELSE ("_begin" :> b))
    @@ (IF e = Missing THEN NoProps ELSE ("_end" :> e))

Periods == {Inst(c, PeriodProps(b, e)) : c \in PeriodClasses, b \in PeriodEnds, e \in PeriodEnds}

Level0 == Leaves \cup Periods

\* what the arrays hold: the leaves, an unbounded period, a period with a begin
Elements ==
  Leaves \cup {Inst("Period", NoProps), Inst("Period", PeriodProps(Moment(1500, TRUE), Undefined))}

Arrays == {List(e) : e \in UNION {[1 .. n -> Elements] : n \in 0 .. MaxLen}}

Objects ==
  {Inst("Object", ("a" :> v)) : v \in Level0 \cup Arrays}
    \cup {Inst("Entity", ("a" :> v) @@ ("b" :> w)) : v \in Leaves, w \in Leaves}
    \cup {Inst("Entity", ("a" :> Inst("Object", ("b" :> v)))) : v \in Level0}

Entities == Level0 \cup Arrays \cup Objects

DocInit ==
  /\ entity \in Entities
  /\ document = Pending
  /\ pc = "idle" /\ mapperCache = NoProps /\ args = NoCall /\ to = Undefined
  /\ heap = NoProps /\ sets = 0 /\ writes = <<>> /\ err = "none"
  /\ instant = NoCall /\ stamp = NoCall /\ restored = NoCall
  /\ ExtIdle

\* document = repo._toDocument(entity)
ToDocument ==
  /\ document = Pending
  /\ document' = ToDocumentOf(entity)
  /\ UNCHANGED <<entity, mapVars, timeVars, extVars>>

DocNext == ToDocument

SpecDoc == DocInit /\ [][DocNext]_vars

IsPeriod(it) == it.t = "obj" /\ it.cls \in PeriodClasses

IsSet(period, k) == GetProp(period.props, k).t = "moment"

\* the storage timestamp of the epoch millisecond ms
StampOf(ts, ms) ==
  /\ ts.t = "timestamp"
  /\ ts.nanoseconds \in 0 .. 999999999
  /\ ts.nanoseconds % 1000000 = 0
  /\ ts.seconds * 1000 + (ts.nanoseconds \div 1000000) = ms

\* C6: the document of a Period (or DatePeriod) carries the variant's name
\* as its type, a begin timestamp exactly when the period's begin is set and
\* an end timestamp exactly when its end is set, and nothing else.
C6_PeriodDocument ==
  (document # Pending /\ IsPeriod(entity)) =>
    /\ document.t = "obj"
    /\ DOMAIN document.props =
         {"_type"} \cup {k \in {"_begin", "_end"} : IsSet(entity, k)}
    /\ document.props["_type"] = Str(entity.cls)
    /\ \A k \in {"_begin", "_end"} :
         IsSet(entity, k) => StampOf(document.props[k], entity.props[k].ms)

C6_Witness ==
  /\ entity = Inst("DatePeriod", PeriodProps(Moment(0 - 1, FALSE), Undefined))
  /\ document # Pending
  /\ DOMAIN document.props = {"_type", "_begin"}
  /\ document.props["_begin"] = Timestamp(0 - 1, 999000000)

\* no function and no undefined at any depth of a document
RECURSIVE Plain(_)
Plain(d) ==
  /\ d.t \notin {"function", "undefined"}
  /\ d.t = "array" => \A i \in 1 .. Len(d.elems) : Plain(d.elems[i])
  /\ d.t = "obj" => \A k \in DOMAIN d.props : Plain(d.props[k])

\* C7: a document returned for an object or an array holds no function and
\* no undefined value at any depth, as a field or as an array element.
\* (Refuted: undefined elements of an array are handed on.)
C7_NoFunctionNoUndefined ==
  (document # Pending /\ entity.t \in {"obj", "array"} /\ document.t # "throw") => Plain(document)

\* C8: _toDocument of a bare function throws IllegalArgumentError and returns
\* no document.  (Refuted: _toTree turns the function into an empty object
\* before _toFirestoreDocument sees it.)
C8_FunctionRejected ==
  (document # Pending /\ entity.t = "function") => document = Thrown("IllegalArgumentError")

-----------------------------------------------------------------------------
(* Growing arrays to a common length: _getLargestArrayAmong,               *)
(* _growAllArraysToLargestAmong                                             *)

MaxArrays == 2
MaxGrowLen == 2

\* an index of an array that holds no element: map and forEach pass over it
Hole == [t |-> "hole"]

LengthOf(a) == Len(a.elems)

\* arrays.reduce((accum, next) => ..., undefined)
RECURSIVE LargestFrom(_, _, _)
LargestFrom(arrays, accum, i) ==
  IF i > Len(arrays) THEN accum
  ELSE LET next == arrays[i]
           r == IF Truthy(accum)
                THEN (IF Truthy(next)
                      THEN (IF LengthOf(accum) >= LengthOf(next) THEN accum ELSE next)
                      ELSE accum)
                ELSE IF Truthy(next) THEN next
                ELSE accum
       IN  LargestFrom(arrays, r, i + 1)

GetLargestArrayAmong(arrays) == LargestFrom(arrays, Undefined, 1)

\* it.length = length: cuts the array, or extends it with indices holding nothing
SetLength(a, length) ==
  List([i \in 1 .. length |-> IF i <= LengthOf(a) THEN a.elems[i] ELSE Hole])

\* it.fill(value, start)
Fill(a, value, start) ==
  List([i \in 1 .. LengthOf(a) |-> IF i > start THEN value ELSE a.elems[i]])

\* an array grown by its length alone, its new indices left without elements
GrowOneNoFill(it, length) == IF ~Truthy(it) THEN it ELSE SetLength(it, length)

\* the body of arrays.forEach(it => ...)
GrowOne(it, length) ==
  IF ~Truthy(it) THEN it
  ELSE Fill(SetLength(it, length), Undefined, LengthOf(it))

GrowAllArraysToLargestAmong(arrays) ==
  IF Len(arrays) = 0 THEN arrays
  ELSE LET largest == GetLargestArrayAmong(arrays)
           length == IF Truthy(largest) THEN LengthOf(largest) ELSE 0
       IN  IF length = 0 THEN arrays
           ELSE [i \in 1 .. Len(arrays) |-> GrowOne(arrays[i], length)]

GrowElements == {Num(1), Undefined, Hole}
GrowArrays == {List(e) : e \in UNION {[1 .. n -> GrowElements] : n \in 0 .. MaxGrowLen}}
GrowArgs == {Undefined, Null} \cup GrowArrays
GrowCalls == UNION {[1 .. n -> GrowArgs] : n \in 0 .. MaxArrays}

GrowInit ==
  /\ given \in {[t |-> "arguments", arrays |-> a] : a \in GrowCalls}
  /\ grown = Pending
  /\ CoreIdle
  /\ RepoIdle
  /\ PubIdle
  /\ SubIdle

\* repo._growAllArraysToLargestAmong(...given)
GrowAll ==
  /\ grown = Pending
  /\ grown' = [t |-> "returned", arrays |-> GrowAllArraysToLargestAmong(given.arrays)]
  /\ UNCHANGED <<given, coreVars, repoVars, pubVars, subVars>>

GrowNext == GrowAll

SpecGrow == GrowInit /\ [][GrowNext]_vars

IsArray(v) == v.t = "array"

\* the greatest length among the given arrays (0 when no array is given)
GreatestLength ==
  LET ls == {LengthOf(given.arrays[i]) : i \in {j \in 1 .. Len(given.arrays) : IsArray(given.arrays[j])}}
  IN  IF ls = {} THEN 0 ELSE CHOOSE l \in ls : \A k \in ls : k <= l

\* the indices of an array that map and forEach visit
Visited(a) == {i \in 1 .. LengthOf(a) : a.elems[i] # Hole}

\* C12: after _growAllArraysToLargestAmong every given array has the greatest
\* length among the given arrays, keeps its elements at their indices, holds
\* an explicit undefined, which map and forEach visit, at every added index,
\* and is not cut; an absent argument stays absent.
C12_GrownToLargest ==
  grown # Pending =>
    /\ Len(grown.arrays) = Len(given.arrays)
    /\ \A i \in 1 .. Len(given.arrays) :
         IF IsArray(given.arrays[i])
         THEN /\ IsArray(grown.arrays[i])
              /\ LengthOf(grown.arrays[i]) = GreatestLength
              /\ LengthOf(grown.arrays[i]) >= LengthOf(given.arrays[i])
              /\ \A j \in 1 .. LengthOf(given.arrays[i]) : grown.arrays[i].elems[j] = given.arrays[i].elems[j]
              /\ \A j \in LengthOf(given.arrays[i]) + 1 .. LengthOf(grown.arrays[i]) :
                   grown.arrays[i].elems[j] = Undefined /\ j \in Visited(grown.arrays[i])
         ELSE grown.arrays[i] = given.arrays[i]

C12_Witness ==
  /\ grown # Pending
  /\ Len(given.arrays) = 2
  /\ given.arrays[1] = List(<<Num(1)>>) /\ given.arrays[2] = List(<<Num(1), Undefined>>)
  /\ grown.arrays[1] = List(<<Num(1), Undefined>>)

-----------------------------------------------------------------------------
(* Persistence: insert, upsert, findById, getById over the collection.     *)
(* Every call is asynchronous: it runs up to an await, and goes on when    *)
(* the awaited read or write of the collection has taken effect; callers   *)
(* interleave at the awaits.                                                *)

ObjectNotFoundError == "ObjectNotFoundError"
\* const ObjectExistsError = require(...).errors.ObjectNotFoundError
ObjectExistsError == ObjectNotFoundError

Bool(b) == [t |-> "boolean", b |-> b]
Resolved(v) == [t |-> "resolved", value |-> v]
WriteResult == [t |-> "writeResult"]

Procs == {"p1", "p2"}
DocIds == {"a"}
Uuids == {"u1"}

\* the identifier of an entity: its id accessor reads _id
IdOf(e) == GetProp(e.props, "_id")
WithId(e, id) == Inst(e.cls, ("_id" :> id) @@ e.props)

\* the concrete repository's _fromDocument rebuilds the entity from the
\* stored fields
FromDocument(plain) == Inst("Thing", plain.props)

\* snapshot.exists && this._fromDocument({ plain: snapshot.data(), ... })
FromSnapshot(id) ==
  IF store[id] = Missing THEN Bool(FALSE) ELSE FromDocument(store[id])

NoMerge == [t |-> "options", merge |-> FALSE]
\* options || this._setOptions, with DEFAULT_SET_OPTIONS = { merge: true }
Merging(options) == IF Truthy(options) THEN options.merge ELSE TRUE

\* DocumentReference.set(doc, { merge })
SetDoc(old, doc, merge) ==
  IF merge /\ old # Missing THEN Inst("Object", doc.props @@ old.props) ELSE doc

Payloads == {("a" :> Str("x")), ("b" :> Str("y"))}
Things ==
  {Inst("Thing", f) : f \in Payloads}
    \cup {Inst("Thing", ("_id" :> Str(id)) @@ f) : id \in DocIds, f \in Payloads}
SetOptions == {Undefined, NoMerge}
IdArgs == {Undefined, Str("")} \cup {Str(id) : id \in DocIds}

Idle == [op |-> "none", pc |-> "idle", id |-> Undefined, entity |-> Undefined,
         options |-> Undefined, existed |-> FALSE, found |-> Undefined,
         result |-> Pending, wrote |-> FALSE]

RepoInit ==
  /\ store \in [DocIds \cup Uuids ->
                 {Missing} \cup {Inst("Object", ("a" :> Str("x")))}]
  /\ \A u \in Uuids : store[u] = Missing
  /\ procs = [p \in Procs |-> Idle]
  /\ CoreIdle
  /\ GrowIdle
  /\ PubIdle
  /\ SubIdle

Existing(id) == Truthy(id) /\ store[id.s] # Missing

\* findById(id) up to its await: if (!id) return null, else the read is asked for
AwaitFindById(p, op, id, e, o) ==
  procs' = [procs EXCEPT ![p] =
    [Idle EXCEPT !.op = op, !.id = id, !.entity = e, !.options = o,
                 !.existed = Existing(id),
                 !.found = IF Truthy(id) THEN Undefined ELSE Null,
                 !.pc = IF Truthy(id) THEN "get" ELSE "check"]]

\* upsert(entity, options) up to its await: the entity gets an id if it has
\* none, the document is made, and the write is asked for
AwaitUpsert(p, op, e, o, existed) ==
  \E u \in IF Truthy(IdOf(e)) THEN {IdOf(e)}
           ELSE {Str(n) : n \in {m \in Uuids :
                   /\ store[m] = Missing
                   /\ \A q \in Procs : procs[q].id # Str(m)}} :
    LET e1 == WithId(e, u)
        doc == ToDocumentOf(e1)
    IN  procs' = [procs EXCEPT ![p] =
          [Idle EXCEPT !.op = op, !.id = u, !.entity = e1, !.options = o,
                       !.existed = existed,
                       !.result = IF doc.t = "throw" THEN doc ELSE Pending,
                       !.pc = IF doc.t = "throw" THEN "done" ELSE "set"]]

Insert(p, e, o) ==
  /\ procs[p].pc = "idle"
  /\ AwaitFindById(p, "insert", IdOf(e), e, o)
  /\ UNCHANGED <<store, coreVars, growVars, pubVars, subVars>>

Upsert(p, e, o) ==
  /\ procs[p].pc = "idle"
  /\ AwaitUpsert(p, "upsert", e, o, Existing(IdOf(e)))
  /\ UNCHANGED <<store, coreVars, growVars, pubVars, subVars>>

FindById(p, id) ==
  /\ procs[p].pc = "idle"
  /\ AwaitFindById(p, "findById", id, Undefined, Undefined)
  /\ UNCHANGED <<store, coreVars, growVars, pubVars, subVars>>

GetById(p, id) ==
  /\ procs[p].pc = "idle"
  /\ AwaitFindById(p, "getById", id, Undefined, Undefined)
  /\ UNCHANGED <<store, coreVars, growVars, pubVars, subVars>>

\* the awaited this._db.doc(path).get() delivers its snapshot
DbGet(p) ==
  /\ procs[p].pc = "get"
  /\ procs' = [procs EXCEPT ![p].found = FromSnapshot(procs[p].id.s), ![p].pc = "check"]
  /\ UNCHANGED <<store, coreVars, growVars, pubVars, subVars>>

\* the caller of findById goes on with what it resolved to
Resume(p) ==
  /\ procs[p].pc = "check"
  /\ LET me == procs[p]
     IN  CASE me.op = "findById" ->
                procs' = [procs EXCEPT ![p].result = Resolved(me.found), ![p].pc = "done"]
           [] me.op = "getById" ->
                procs' = [procs EXCEPT
                  ![p].result = IF ~Truthy(me.found) THEN Thrown(ObjectNotFoundError)
                                ELSE Resolved(Undefined),
                  ![p].pc = "done"]
           [] me.op = "insert" ->
                IF Truthy(me.found)
                THEN procs' = [procs EXCEPT ![p].result = Thrown(ObjectExistsError),
                                            ![p].pc = "done"]
                ELSE AwaitUpsert(p, "insert", me.entity, me.options, me.existed)
  /\ UNCHANGED <<store, coreVars, growVars, pubVars, subVars>>

\* the awaited this._collection.doc(id).set(document, options) takes effect
DbSet(p) ==
  /\ procs[p].pc = "set"
  /\ LET me == procs[p]
         id == me.id.s
     IN  /\ store' = [store EXCEPT ![id] =
                        SetDoc(@, ToDocumentOf(me.entity), Merging(me.options))]
         /\ procs' = [procs EXCEPT ![p].result = Resolved(WriteResult),
                                   ![p].wrote = TRUE, ![p].pc = "done"]
  /\ UNCHANGED <<coreVars, growVars, pubVars, subVars>>

\* the caller has taken the outcome of its call
Settle(p) ==
  /\ procs[p].pc = "done"
  /\ procs' = [procs EXCEPT ![p] = Idle]
  /\ UNCHANGED <<store, coreVars, growVars, pubVars, subVars>>

RepoNext ==
  \/ \E p \in Procs, e \in Things, o \in SetOptions : Insert(p, e, o)
  \/ \E p \in Procs, e \in Things, o \in SetOptions : Upsert(p, e, o)
  \/ \E p \in Procs, id \in IdArgs : FindById(p, id)
  \/ \E p \in Procs, id \in IdArgs : GetById(p, id)
  \/ \E p \in Procs : DbGet(p)
  \/ \E p \in Procs : Resume(p)
  \/ \E p \in Procs : DbSet(p)
  \/ \E p \in Procs : Settle(p)

SpecRepo == RepoInit /\ [][RepoNext]_vars

\* the error kinds the interface tells apart
NotFoundKind == "ObjectNotFoundError"
AlreadyExistsKind == "ObjectExistsError"

Finished(p, op) == procs[p].op = op /\ procs[p].pc = "done"

\* C13: insert(entity) for an identifier that already maps to a stored
\* document fails with an already-exists error, an error kind other than the
\* not-found error of a missing identifier, and writes nothing; insert for an
\* identifier with no document writes the entity's document.
C13_InsertExistingFails ==
  \A p \in Procs :
    Finished(p, "insert") =>
      /\ procs[p].existed =>
           /\ procs[p].result = Thrown(AlreadyExistsKind)
           /\ procs[p].result # Thrown(NotFoundKind)
           /\ ~procs[p].wrote
      /\ (~procs[p].existed /\ procs[p].result.t = "resolved") =>
           /\ procs[p].wrote
           /\ store[procs[p].id.s] # Missing

\* C15: getById(id) resolves to the entity findById(id) resolves to when a
\* document exists for id, and fails with a not-found error when none exists
\* or id is empty.
C15_GetByIdAsFindById ==
  \A p \in Procs :
    Finished(p, "getById") =>
      IF Truthy(procs[p].found)
      THEN procs[p].result = Resolved(procs[p].found)
      ELSE procs[p].result = Thrown(NotFoundKind)

\* C16: of two insert calls for the same identifier that overlap, started
\* while the collection holds no document for it, at most one writes the
\* document and succeeds; the other fails with the already-exists error.
C16_OneInsertWins ==
  \A p, q \in Procs :
    (/\ p # q
     /\ Finished(p, "insert") /\ Finished(q, "insert")
     /\ Truthy(IdOf(procs[p].entity)) /\ IdOf(procs[p].entity) = IdOf(procs[q].entity)
     /\ ~procs[p].existed /\ ~procs[q].existed)
      => \/ procs[p].wrote /\ ~procs[q].wrote /\ procs[q].result.t = "throw"
         \/ procs[q].wrote /\ ~procs[p].wrote /\ procs[p].result.t = "throw"

-----------------------------------------------------------------------------
(* Publisher: constructor, topic and transformer setters, publish           *)

MaxPublished == 2

MissingRequiredArgumentError == "MissingRequiredArgumentError"
IllegalArgumentError == "IllegalArgumentError"

\* throw MissingRequiredArgumentError(...) without new: what is thrown is the
\* error the call returns, or the TypeError of calling a class without new
ThrownWithoutNew == {Thrown(MissingRequiredArgumentError), Thrown("TypeError")}

TypeOf(v) ==
  CASE v.t = "undefined" -> "undefined"
    [] v.t = "number" -> "number"
    [] v.t = "string" -> "string"
    [] v.t = "boolean" -> "boolean"
    [] v.t = "function" -> "function"
    [] OTHER -> "object"

\* _testSetTopic(topic): the outcomes, a returned value or a throw
TestSetTopic(topic) ==
  IF ~Truthy(topic) THEN ThrownWithoutNew
  ELSE IF TypeOf(topic) # "object" THEN {Thrown(IllegalArgumentError)}
  ELSE {topic}

\* _testSetTransformer(transformer)
TestSetTransformer(transformer) ==
  IF ~Truthy(transformer) THEN ThrownWithoutNew
  ELSE IF TypeOf(transformer) # "object" THEN {Thrown(IllegalArgumentError)}
  ELSE {transformer}

Buffer(bytes) == [t |-> "buffer", utf8 |-> bytes]

Decimal == <<"1", "2", "3">>
\* JSON.stringify(message)
RECURSIVE JsonProps(_, _)
JsonProps(props, keys) ==
  IF keys = <<>> THEN ""
  ELSE LET v == props[Head(keys)]
           one == "\"" \o Head(keys) \o "\":"
                    \o (IF v.t = "string" THEN "\"" \o v.s \o "\"" ELSE Decimal[v.n])
       IN  IF Len(keys) = 1 THEN one ELSE one \o "," \o JsonProps(props, Tail(keys))

JsonStringify(message) ==
  CASE message.t = "string" -> "\"" \o message.s \o "\""
    [] message.t = "number" -> Decimal[message.n]
    [] message.t = "obj" -> "{" \o JsonProps(message.props, KeysIn(message.props)) \o "}"

\* Publisher.DEFAULT_TRANSFORMER
DefaultTransformer == [t |-> "function", name |-> "DEFAULT_TRANSFORMER"]
Reverse == [t |-> "function", name |-> "reverse"]

\* transformer(message)
Transform(transformer, message) ==
  IF TypeOf(transformer) # "function" THEN Thrown("TypeError")
  ELSE IF transformer = DefaultTransformer THEN Buffer(JsonStringify(message))
  ELSE Buffer(message.t)

Topics == {Inst("Topic", ("name" :> Str(n))) : n \in {"orders", "audit"}}
TopicArgs == {Undefined, Str("orders")} \cup Topics
TransformerArgs == {Undefined, Reverse, Inst("Object", NoProps)}
Messages == {Undefined, Num(0), Str(""), Num(1), Str("hi"),
             Inst("Object", ("a" :> Str("x")) @@ ("b" :> Num(2)))}
Attributes == {Undefined, Null, Inst("Object", ("k" :> Str("v")))}

PubInit ==
  /\ publisher = NoCall
  /\ pubCall = NoCall
  /\ published = <<>>
  /\ CoreIdle /\ GrowIdle /\ RepoIdle /\ SubIdle

\* new Publisher({ topic, transformer })
NewPublisher(topic, transformer) ==
  /\ publisher = NoCall
  /\ \E t \in TestSetTopic(topic) :
     \E f \in IF t.t = "throw" THEN {t}
              ELSE TestSetTransformer(IF Truthy(transformer) THEN transformer
                                      ELSE DefaultTransformer) :
       /\ publisher' = IF f.t = "throw" THEN NoCall
                       ELSE [t |-> "publisher", topic |-> t, transformer |-> f]
       /\ pubCall' = [op |-> "new", topic |-> topic, transformer |-> transformer,
                      message |-> Undefined, attributes |-> Undefined,
                      outcome |-> IF f.t = "throw" THEN f ELSE Resolved(Undefined),
                      calls |-> 0]
  /\ UNCHANGED <<published, coreVars, growVars, repoVars, subVars>>

\* publisher.withTopic(topic)
WithTopic(topic) ==
  /\ publisher # NoCall
  /\ \E t \in TestSetTopic(topic) :
       /\ publisher' = IF t.t = "throw" THEN publisher ELSE [publisher EXCEPT !.topic = t]
       /\ pubCall' = [op |-> "withTopic", topic |-> topic, transformer |-> Undefined,
                      message |-> Undefined, attributes |-> Undefined,
                      outcome |-> IF t.t = "throw" THEN t ELSE Resolved(Undefined),
                      calls |-> 0]
  /\ UNCHANGED <<published, coreVars, growVars, repoVars, subVars>>

\* publisher.withTransformer(transformer)
WithTransformer(transformer) ==
  /\ publisher # NoCall
  /\ \E f \in TestSetTransformer(transformer) :
       /\ publisher' = IF f.t = "throw" THEN publisher
                       ELSE [publisher EXCEPT !.transformer = f]
       /\ pubCall' = [op |-> "withTransformer", topic |-> Undefined,
                      transformer |-> transformer,
                      message |-> Undefined, attributes |-> Undefined,
                      outcome |-> IF f.t = "throw" THEN f ELSE Resolved(Undefined),
                      calls |-> 0]
  /\ UNCHANGED <<published, coreVars, growVars, repoVars, subVars>>

\* publisher.publish({ message, attributes, transformer })
Publish(message, attributes, transformer) ==
  /\ publisher # NoCall
  /\ Len(published) < MaxPublished
  /\ \E f \in IF ~Truthy(message) THEN {Thrown(MissingRequiredArgumentError)}
              ELSE IF Truthy(transformer) THEN TestSetTransformer(transformer)
              ELSE {publisher.transformer} :
     \E data \in {IF f.t = "throw" THEN f ELSE Transform(f, message)} :
       /\ published' = IF data.t = "throw" THEN published
                       ELSE Append(published,
                              [topic |-> publisher.topic, data |-> data,
                               attributes |-> IF Truthy(attributes) THEN attributes
                                              ELSE Undefined])
       /\ pubCall' = [op |-> "publish", topic |-> Undefined, transformer |-> transformer,
                      message |-> message, attributes |-> attributes,
                      outcome |-> IF data.t = "throw" THEN data ELSE Resolved(Undefined),
                      calls |-> IF data.t = "throw" THEN 0 ELSE 1]
  /\ UNCHANGED <<publisher, coreVars, growVars, repoVars, subVars>>

PubNext ==
  \/ \E topic \in TopicArgs, transformer \in TransformerArgs : NewPublisher(topic, transformer)
  \/ \E topic \in TopicArgs : WithTopic(topic)
  \/ \E transformer \in TransformerArgs : WithTransformer(transformer)
  \/ \E message \in Messages, attributes \in Attributes, transformer \in TransformerArgs :
       Publish(message, attributes, transformer)

SpecPub == PubInit /\ [][PubNext]_vars

\* C14: a Publisher constructed with a valid topic and no transformer uses
\* the default transformation: publish({ message }) calls topic.publish once,
\* with the UTF-8 JSON text of the message as a buffer and the attributes
\* given; publish without a message fails with a missing-required-argument
\* error and does not call topic.publish.
C14_DefaultTransformation ==
  /\ (pubCall # NoCall /\ pubCall.op = "new" /\ pubCall.topic \in Topics
        /\ pubCall.transformer = Undefined)
       => /\ pubCall.outcome.t = "resolved"
          /\ publisher # NoCall
          /\ publisher.topic = pubCall.topic
          /\ publisher.transformer = DefaultTransformer
  /\ (pubCall # NoCall /\ pubCall.op = "publish" /\ pubCall.transformer = Undefined
        /\ publisher.transformer = DefaultTransformer /\ Truthy(pubCall.message))
       => /\ pubCall.calls = 1
          /\ published[Len(published)].data = Buffer(JsonStringify(pubCall.message))
          /\ published[Len(published)].attributes = pubCall.attributes
  /\ (pubCall # NoCall /\ pubCall.op = "publish" /\ pubCall.message = Undefined)
       => /\ pubCall.outcome = Thrown(MissingRequiredArgumentError)
          /\ pubCall.calls = 0

-----------------------------------------------------------------------------
(* SynchronousSubscriber: listen, unlisten, _try.  JavaScript runs one      *)
(* thing at a time: listen runs to its end without giving way, listeners    *)
(* run inside emit, and the continuation of an awaited pull runs only when  *)
(* nothing else is running.                                                 *)

MaxListens == 2
MaxPulls == 2
MaxMessages == 2

Handler == [t |-> "function", name |-> "messageHandler"]
HandlerArgs == {Undefined, Handler}

Ev(e, k, j) == [e |-> e, pull |-> k, msg |-> j]
Emit(e) == Ev(e, 0, 0)

\* the pulls started so far
Started == Cardinality({i \in DOMAIN events : events[i].e = "willPull"})

\* an instance as the constructor leaves it (_listening = false) with its
\* client and request configuration in place, a message handler or none, and
\* an 'error' listener or none
SubInit ==
  /\ subscriber \in {[listening |-> FALSE, messageHandler |-> h, errorListener |-> l,
                      handlerArg |-> Undefined] : h \in HandlerArgs, l \in BOOLEAN}
  /\ subPc = "idle"
  /\ events = <<>>
  /\ pulls = <<>>
  /\ CoreIdle /\ GrowIdle /\ RepoIdle /\ PubIdle

\* listen({ messageHandler }) up to the while loop
Listen(h) ==
  /\ subPc = "idle"
  /\ ~subscriber.listening
  /\ Cardinality({i \in DOMAIN events : events[i].e = "willListen"}) < MaxListens
  /\ subscriber' = [subscriber EXCEPT !.listening = TRUE, !.handlerArg = h]
  /\ events' = Append(events, Emit("willListen"))
  /\ subPc' = "willListen"
  /\ UNCHANGED <<pulls, coreVars, growVars, repoVars, pubVars>>

\* unlisten(), called by a listener of the event being emitted
Unlisten ==
  /\ subPc \in {"willListen", "willPull"}
  /\ subscriber.listening
  /\ events' = Append(events, Emit("willUnlisten"))
  /\ subscriber' = [subscriber EXCEPT !.listening = FALSE]
  /\ UNCHANGED <<subPc, pulls, coreVars, growVars, repoVars, pubVars>>

\* while (this._listening): one more turn, pull() runs up to its await
StartPull ==
  /\ subPc \in {"willListen", "pulled"}
  /\ subscriber.listening
  /\ Started < MaxPulls
  /\ events' = Append(events, Ev("willPull", Started + 1, 0))
  /\ subPc' = "willPull"
  /\ UNCHANGED <<subscriber, pulls, coreVars, growVars, repoVars, pubVars>>

\* await this.subscriberClient.pull(request, options): pull gives way with
\* its promise, this._try(pull) returns, and the loop is at its test again
AwaitPull ==
  /\ subPc = "willPull"
  /\ pulls' = Append(pulls,
       [pull |-> Started,
        handler |-> IF Truthy(subscriber.handlerArg) THEN subscriber.handlerArg
                    ELSE subscriber.messageHandler])
  /\ subPc' = "pulled"
  /\ UNCHANGED <<subscriber, events, coreVars, growVars, repoVars, pubVars>>

\* the loop ends: this._try(() => this.emit('didUnlisten')), listen returns
DidUnlisten ==
  /\ subPc \in {"willListen", "pulled"}
  /\ ~subscriber.listening
  /\ events' = Append(events, Emit("didUnlisten"))
  /\ subPc' = "idle"
  /\ UNCHANGED <<subscriber, pulls, coreVars, growVars, repoVars, pubVars>>

\* the body of receivedMessages.forEach for message j of pull k:
\* this._try(this.emit('message', message)) emits the event and then hands
\* emit's boolean to _try, whose fn() throws a TypeError, emitted as 'error'
OnMessage(k, j, handler, errorListener) ==
  (IF Truthy(handler) THEN <<Ev("handler", k, j)>> ELSE <<>>)
    \o <<Ev("message", k, j)>>
    \o (IF errorListener THEN <<Ev("error", k, j)>> ELSE <<>>)

\* receivedMessages.forEach: with no 'error' listener emit('error') throws
\* and the rest of the messages is never looked at
RECURSIVE ForEachMessage(_, _, _, _, _)
ForEachMessage(k, j, n, handler, errorListener) ==
  IF j > n THEN <<>>
  ELSE OnMessage(k, j, handler, errorListener)
         \o (IF errorListener THEN ForEachMessage(k, j + 1, n, handler, errorListener)
             ELSE <<>>)

\* the response of a pull arrives while nothing is running: the rest of
\* pull() runs, with n received messages
PullResponse(i, n) ==
  /\ subPc = "idle"
  /\ i \in DOMAIN pulls
  /\ events' = events \o <<Ev("didPull", pulls[i].pull, 0)>>
                 \o ForEachMessage(pulls[i].pull, 1, n, pulls[i].handler,
                                   subscriber.errorListener)
  /\ pulls' = [j \in 1 .. Len(pulls) - 1 |-> IF j < i THEN pulls[j] ELSE pulls[j + 1]]
  /\ UNCHANGED <<subscriber, subPc, coreVars, growVars, repoVars, pubVars>>

SubNext ==
  \/ \E h \in HandlerArgs : Listen(h)
  \/ Unlisten
  \/ StartPull
  \/ AwaitPull
  \/ DidUnlisten
  \/ \E i \in 1 .. MaxPulls, n \in 0 .. MaxMessages : PullResponse(i, n)

SpecSub == SubInit /\ [][SubNext]_vars

Positions(e) == {i \in DOMAIN events : events[i].e = e}
PositionOf(e, k, j) == {i \in DOMAIN events : events[i] = Ev(e, k, j)}

-----------------------------------------------------------------------------
(* _toMoment on its own: every kind of value a caller may hand to it        *)

InstantMillis == {0 - 1001, 0 - 1, 0, 1, 999, 1000, 1500}
InstantNanos == {0, 499999, 500000, 999999999}
InstantSeconds == (0 - 2) .. 2

InstantArgs ==
  {Undefined, Null, Str(""), Str("yesterday-ish")}
    \cup {Num(ms) : ms \in InstantMillis}
    \cup {Moment(ms, u) : ms \in InstantMillis, u \in BOOLEAN}
    \cup {DateOf(ms) : ms \in InstantMillis}
    \cup {Timestamp(s, n) : s \in InstantSeconds, n \in InstantNanos}
    \cup {TimestampLike(s, n) : s \in InstantSeconds, n \in InstantNanos}

InstantInit ==
  /\ instant \in InstantArgs
  /\ stamp = NoCall
  /\ restored = Pending
  /\ pc = "idle" /\ mapperCache = NoProps /\ args = NoCall /\ to = Undefined
  /\ heap = NoProps /\ sets = 0 /\ writes = <<>> /\ err = "none"
  /\ entity = NoCall /\ document = NoCall
  /\ ExtIdle

\* restored = repo._toMoment(instant)
ToInstantOf ==
  /\ restored = Pending
  /\ restored' = ToMoment(instant)
  /\ UNCHANGED <<instant, stamp, mapVars, docVars, extVars>>

InstantNext == ToInstantOf

SpecInstant == InstantInit /\ [][InstantNext]_vars

Absent(v) == v.t \in {"undefined", "null"}

\* the epoch milliseconds a supported value denotes; a storage timestamp
\* denotes a point between two whole milliseconds, and either is taken
PointsOf(v) ==
  CASE v.t = "number" -> {v.n}
    [] v.t \in {"moment", "date"} -> {v.ms}
    [] v.t \in {"timestamp", "plain"} ->
         {v.seconds * 1000 + v.nanoseconds \div 1000000,
          v.seconds * 1000 + v.nanoseconds \div 1000000 + 1}
    [] OTHER -> {}

\* C18: toInstant returns its argument unchanged only when the argument is
\* absent; for a storage timestamp, a timestamp-shaped plain object, an
\* integer count of epoch milliseconds (0 included) or an instant it returns
\* the UTC instant of that point in time; for a value that cannot be read as
\* a time it fails with an invalid-argument error.
C18_ToInstant ==
  (stamp = NoCall /\ restored \notin {NoCall, Pending}) =>
    /\ Absent(instant) => restored = instant
    /\ PointsOf(instant) # {} =>
         /\ restored.t = "moment"
         /\ restored.utc
         /\ restored.ms \in PointsOf(instant)
    /\ instant.t = "string" => restored = Thrown(IllegalArgumentError)

====
